---- MODULE Spec2Model ----
(***************************************************************************)
(* Order ledger (InputOrder.js), invoice-id issuer, invoice creation       *)
(* (CreateInvoice / generateInvoice), payment client (DokuPayment), phone   *)
(* normalization and sheet lists of the order management script.           *)
(*                                                                         *)
(* A sheet is the sequence of its rows, row r at index r; row 1 is the     *)
(* header.  A text cell is the sequence of its characters, so that trim()  *)
(* is computed and not assumed.                                            *)
(***************************************************************************)
EXTENDS Integers, Sequences, FiniteSets, TLC

VARIABLES
    ss,         \* the spreadsheet: sheet name -> rows of the sheet
    req,        \* the data object of the last submitOrder call
    ret,        \* what the last submitOrder call gave back
    path,       \* the branch the last submitOrder call took
    submitted,  \* sheet EVENT: customer name -> items submitted successfully
    props,      \* script properties: date -> text stored under "counter_" + date
    today,      \* the date Utilities.formatDate(new Date(), ..) gives now
    idRet,      \* the identifier the last createInvoiceId call returned
    issued,     \* identifiers createInvoiceId has returned
    repeated,   \* the last call returned an identifier that was returned before
    calls,      \* date -> number of createInvoiceId calls made for that date
    pc,         \* concurrent caller -> its position inside createInvoiceId
    counter,    \* concurrent caller -> its local variable counter
    idOut,      \* concurrent caller -> the identifier its last call returned
    readOf,     \* concurrent caller -> the stored value its last call read
    runs,       \* concurrent caller -> calls it has finished
    orderRows,  \* the data rows of sheet ORDER
    tempSheets, \* number of TEMP_INVOICE_<timestamp> sheets in the spreadsheet
    inv,        \* the last invoice operation: its input, its steps, its outcome
    payCall,    \* the last generatePaymentUrl call: its input, the gateway, its result
    phoneCall,  \* the last normalizePhoneNumber call: its input and its output
    sigCall,    \* two generateSignature calls: their inputs and their outputs
    listed,     \* the last sheet list offered: the function and the names it gave
    ops         \* concurrent caller -> its submitOrder call: position and locals

ledgerVars == <<ss, req, ret, path, submitted, ops>>

issuerVars == <<props, today, idRet, issued, repeated, calls>>

raceVars == <<pc, counter, idOut, readOf, runs>>

invoiceVars == <<orderRows, tempSheets, inv>>

callVars == <<payCall, phoneCall, sigCall, listed>>

vars == <<ledgerVars, issuerVars, raceVars, invoiceVars, callVars>>

----------------------------------------------------------------------------
(* Bounds *)

MaxRows == 4      \* data rows a sheet may hold
MaxItems == 2     \* items of one submitOrder call
MaxCalls == 7     \* createInvoiceId calls per date in one run
MaxRuns == 3      \* calls each concurrent caller makes
MaxInvoices == 2  \* invoice operations in one run
MaxPhoneLen == 4  \* characters of a phone number given to normalizePhoneNumber

----------------------------------------------------------------------------
(* Text *)

Blank == << >>

RECURSIVE TrimLeft(_)
TrimLeft(s) ==
    IF s # << >> /\ Head(s) = " " THEN TrimLeft(Tail(s)) ELSE s

RECURSIVE TrimRight(_)
TrimRight(s) ==
    IF s # << >> /\ s[Len(s)] = " " THEN TrimRight(SubSeq(s, 1, Len(s) - 1)) ELSE s

\* String.prototype.trim
Trim(s) == TrimRight(TrimLeft(s))

\* cellValue && cellValue.toString().trim() !== ""
IsNameCell(cellValue) == cellValue # Blank /\ Trim(cellValue) # Blank

----------------------------------------------------------------------------
(* Inputs *)

\* customer names a caller may send: two plain names and one padded with a space
NameInputs == { <<"a">>, <<"b">>, <<" ", "a">> }

ItemPool == { [item |-> "pen",  quantity |-> 2, price |-> 1000],
              [item |-> "book", quantity |-> 1, price |-> 5000] }

ItemLists == UNION { [1..n -> ItemPool] : n \in 0..MaxItems }

\* data.items is absent when hasItems is FALSE
Order(s, n, h, it) == [sheetName |-> s, name |-> n, hasItems |-> h, items |-> it]

\* orders with items for a sheet that exists; orders whose item list is absent
\* or empty; orders for a sheet that does not exist
OrderData ==
    { Order("EVENT", n, TRUE, it) : n \in NameInputs, it \in ItemLists \ {<< >>} }
    \cup { Order("EVENT", <<"a">>, FALSE, << >>), Order("EVENT", <<"a">>, TRUE, << >>) }
    \cup { Order("NOPE", <<"a">>, TRUE, it) : it \in { l \in ItemLists : Len(l) = 1 } }

----------------------------------------------------------------------------
(* Sheets *)

HeaderRow == [name |-> <<"N">>, item |-> "Item", quantity |-> 0, price |-> 0]

BlankRow == [name |-> Blank, item |-> "", quantity |-> 0, price |-> 0]

IsBlankRow(row) == row.name = Blank /\ row.item = ""

\* Sheet.getLastRow: the last row that has content, 0 for an empty sheet
RECURSIVE getLastRow(_)
getLastRow(sheet) ==
    IF sheet = << >> THEN 0
    ELSE IF IsBlankRow(sheet[Len(sheet)])
         THEN getLastRow(SubSeq(sheet, 1, Len(sheet) - 1))
         ELSE Len(sheet)

\* Sheet.insertRowAfter(p): a blank row becomes row p + 1
insertRowAfter(sheet, p) ==
    SubSeq(sheet, 1, p) \o <<BlankRow>> \o SubSeq(sheet, p + 1, Len(sheet))

\* the setValue calls that fill row r (the grid has blank rows below the data)
setRow(sheet, r, row) ==
    IF r <= Len(sheet) THEN [sheet EXCEPT ![r] = row]
    ELSE sheet \o [i \in 1..(r - Len(sheet)) |-> IF i = r - Len(sheet) THEN row ELSE BlankRow]

ItemRow(nm, it) ==
    [name |-> nm, item |-> it.item, quantity |-> it.quantity, price |-> it.price]

----------------------------------------------------------------------------
(* InputOrder.getNames *)

\* the scan of the name column from row rowNum on; cur is the block in progress
RECURSIVE scanNames(_, _, _, _, _)
scanNames(sheet, lastRow, rowNum, cur, names) ==
    IF rowNum > lastRow
    THEN IF cur = << >> THEN names
         ELSE Append(names, [name |-> cur[1].name, startRow |-> cur[1].startRow,
                             endRow |-> lastRow])
    ELSE IF IsNameCell(sheet[rowNum].name)
         THEN scanNames(sheet, lastRow, rowNum + 1,
                        << [name |-> Trim(sheet[rowNum].name), startRow |-> rowNum] >>,
                        IF cur = << >> THEN names
                        ELSE Append(names, [name |-> cur[1].name,
                                            startRow |-> cur[1].startRow,
                                            endRow |-> rowNum - 1]))
         ELSE scanNames(sheet, lastRow, rowNum + 1, cur, names)

getNames(sheet) ==
    IF getLastRow(sheet) <= 1 THEN << >>
    ELSE scanNames(sheet, getLastRow(sheet), 2, << >>, << >>)

\* a lookup that takes the last matching block instead of the first
findLast(names, nm) ==
    IF \E i \in 1..Len(names) : names[i].name = nm
    THEN CHOOSE i \in 1..Len(names) :
            /\ names[i].name = nm
            /\ \A j \in (i + 1)..Len(names) : names[j].name # nm
    ELSE 0

\* names.find((n) => n.name === data.name): index of the first match, 0 if none
find(names, nm) ==
    IF \E i \in 1..Len(names) : names[i].name = nm
    THEN CHOOSE i \in 1..Len(names) :
            /\ names[i].name = nm
            /\ \A j \in 1..(i - 1) : names[j].name # nm
    ELSE 0

----------------------------------------------------------------------------
(* CreateInvoice.getCustomerItems *)

\* the loop over the rows of data from row i on; isCustomerSection and items
\* are the loop's variables
RECURSIVE scanItems(_, _, _, _, _)
scanItems(data, i, customerName, isCustomerSection, items) ==
    IF i > Len(data) THEN items
    ELSE LET name    == data[i].name
             section == IF IsNameCell(name) THEN Trim(name) = customerName
                        ELSE isCustomerSection
             pushed  == IF section /\ data[i].item # ""
                        THEN Append(items, [item |-> data[i].item,
                                            quantity |-> data[i].quantity,
                                            price |-> data[i].price])
                        ELSE items
         IN  IF section /\ IsNameCell(name) /\ Trim(name) # customerName
             THEN pushed \* break
             ELSE scanItems(data, i + 1, customerName, section, pushed)

getCustomerItems(sheet, customerName) ==
    IF getLastRow(sheet) <= 1 THEN << >>
    ELSE scanItems(SubSeq(sheet, 2, getLastRow(sheet)), 1, customerName, FALSE, << >>)

----------------------------------------------------------------------------
(* InputOrder._insertRowsForExistingName / _appendRowsForNewName *)

\* an insert position that is not advanced per item
insertPositionFixed(endRow, i) == endRow

\* const insertPosition = endRow + i
insertPosition(endRow, i) == endRow + i

\* loop of _insertRowsForExistingName from item i on (i counts from 0)
RECURSIVE insertLoop(_, _, _, _)
insertLoop(sheet, endRow, items, i) ==
    IF i >= Len(items) THEN sheet
    ELSE LET pos    == insertPosition(endRow, i)
             newRow == pos + 1
         IN  insertLoop(setRow(insertRowAfter(sheet, pos), newRow,
                               ItemRow(Blank, items[i + 1])),
                        endRow, items, i + 1)

_insertRowsForExistingName(sheet, endRow, data) ==
    insertLoop(sheet, endRow, data.items, 0)

\* the row a new name's item i goes to, read again from the sheet at each write
newRowFresh(sheet, lastRow, i) == getLastRow(sheet) + 1

\* const newRow = lastRow + 1 + i
newRow(sheet, lastRow, i) == lastRow + 1 + i

\* loop of _appendRowsForNewName from item i on; lastRow is read once, before
RECURSIVE appendLoop(_, _, _, _)
appendLoop(sheet, lastRow, data, i) ==
    IF i >= Len(data.items) THEN sheet
    ELSE appendLoop(setRow(sheet, newRow(sheet, lastRow, i),
                           ItemRow(IF i = 0 THEN data.name ELSE Blank,
                                   data.items[i + 1])),
                    lastRow, data, i + 1)

_appendRowsForNewName(sheet, data) ==
    appendLoop(sheet, getLastRow(sheet), data, 0)

----------------------------------------------------------------------------
(* InputOrder.submitOrder *)

SheetExists(book, sheetName) == sheetName \in DOMAIN book

\* the branch submitOrder takes on data
submitPath(book, data) ==
    IF ~SheetExists(book, data.sheetName) THEN "nosheet"
    ELSE IF ~data.hasItems \/ Len(data.items) = 0 THEN "noitems"
    ELSE IF find(getNames(book[data.sheetName]), data.name) # 0 THEN "insert"
    ELSE "append"

\* the spreadsheet after submitOrder(data)
submitSheets(book, data) ==
    LET p == submitPath(book, data) IN
    IF p \in {"nosheet", "noitems"} THEN book
    ELSE LET sheet == book[data.sheetName]
             names == getNames(sheet)
         IN  IF p = "insert"
             THEN [book EXCEPT ![data.sheetName] =
                     _insertRowsForExistingName(sheet,
                        names[find(names, data.name)].endRow, data)]
             ELSE [book EXCEPT ![data.sheetName] = _appendRowsForNewName(sheet, data)]

\* a submitOrder whose sheet check is made outside the try block
submitResultUncaught(book, data) ==
    LET p == submitPath(book, data) IN
    IF p = "nosheet"
    THEN [raised |-> TRUE, success |-> FALSE,
          message |-> "Sheet not found: " \o data.sheetName]
    ELSE IF p = "noitems"
    THEN [raised |-> FALSE, success |-> FALSE, message |-> "Error: No items to submit"]
    ELSE [raised |-> FALSE, success |-> TRUE,
          message |-> IF Len(data.items) = 1 THEN "1 item berhasil ditambahkan!"
                      ELSE "n items berhasil ditambahkan!"]

\* what submitOrder gives back: every throw is caught and turned into a result
submitResult(book, data) ==
    LET p == submitPath(book, data) IN
    IF p = "nosheet"
    THEN [raised |-> FALSE, success |-> FALSE,
          message |-> "Error: Sheet not found: " \o data.sheetName]
    ELSE IF p = "noitems"
    THEN [raised |-> FALSE, success |-> FALSE, message |-> "Error: No items to submit"]
    ELSE [raised |-> FALSE, success |-> TRUE,
          message |-> IF Len(data.items) = 1 THEN "1 item berhasil ditambahkan!"
                      ELSE "n items berhasil ditambahkan!"]

NoResult == [raised |-> FALSE, success |-> FALSE, message |-> ""]

DataRows(sheet) == IF Len(sheet) = 0 THEN 0 ELSE Len(sheet) - 1

AllNames == NameInputs \cup { Trim(n) : n \in NameInputs }

submitOrder(data) ==
    /\ submitPath(ss, data) \in {"insert", "append"}
          => DataRows(ss[data.sheetName]) + Len(data.items) <= MaxRows
    /\ ss' = submitSheets(ss, data)
    /\ ret' = submitResult(ss, data)
    /\ req' = data
    /\ path' = submitPath(ss, data)
    /\ submitted' =
          IF submitPath(ss, data) \in {"insert", "append"} /\ data.sheetName = "EVENT"
          THEN [submitted EXCEPT ![data.name] = @ + Len(data.items)]
          ELSE submitted
    /\ UNCHANGED <<ops, issuerVars, raceVars, invoiceVars, callVars>>

----------------------------------------------------------------------------
(* createInvoiceId *)

PadWidth == 4

Dates == { "20250916", "20250917" }

FirstDate == "20250916"

NoId == [date |-> "", formatted |-> << >>]

\* String(counter): the decimal digits of a natural number
RECURSIVE String(_)
String(n) == IF n < 10 THEN <<n>> ELSE Append(String(n \div 10), n % 10)

\* Number(text) for a text of decimal digits
RECURSIVE Number(_)
Number(text) ==
    IF text = << >> THEN 0
    ELSE 10 * Number(SubSeq(text, 1, Len(text) - 1)) + text[Len(text)]

\* text.slice(-n): the last n characters, the whole text when it is shorter
slice(text, n) ==
    IF Len(text) <= n THEN text ELSE SubSeq(text, Len(text) - n + 1, Len(text))

Zeros == [i \in 1..PadWidth |-> 0]

\* a rendering that keeps every digit of the counter
formatWide(n) ==
    IF Len(String(n)) >= PadWidth THEN String(n) ELSE slice(Zeros \o String(n), PadWidth)

\* ("0000" + counter).slice(-4)
format(n) == slice(Zeros \o String(n), PadWidth)

\* props.getProperty(counterKey) || "0": an absent property is the empty text
getCounter(store, date) ==
    Number(IF store[date] = << >> THEN <<0>> ELSE store[date])

\* a write that increments whatever is stored at the time of the write
setCounterFresh(store, date, n) ==
    [store EXCEPT ![date] = String(getCounter(store, date) + 1)]

\* props.setProperty(counterKey, String(counter))
setCounter(store, date, n) == [store EXCEPT ![date] = String(n)]

\* `INV-${today}-${formatted}`
invoiceId(date, n) == [date |-> date, formatted |-> format(n)]

RECURSIVE Pow10(_)
Pow10(k) == IF k = 0 THEN 1 ELSE 10 * Pow10(k - 1)

\* a number of calls after which two more use up the identifiers of PadWidth digits
NearWrap == Pow10(PadWidth) - 2

\* one whole call of createInvoiceId, run alone
createInvoiceId ==
    /\ \/ calls[today] < MaxCalls
       \/ calls[today] >= NearWrap /\ calls[today] < NearWrap + MaxCalls
    /\ LET n == getCounter(props, today) + 1
       IN  /\ props' = setCounter(props, today, n)
           /\ idRet' = invoiceId(today, n)
           /\ issued' = issued \cup { invoiceId(today, n) }
           /\ repeated' = (invoiceId(today, n) \in issued)
    /\ calls' = [calls EXCEPT ![today] = @ + 1]
    /\ UNCHANGED <<today, ledgerVars, raceVars, invoiceVars, callVars>>

\* the calendar day changes: new Date() formats to the next date
NextDay ==
    /\ today = FirstDate
    /\ today' = CHOOSE d \in Dates : d # FirstDate
    /\ UNCHANGED <<props, idRet, issued, repeated, calls, ledgerVars, raceVars,
                   invoiceVars, callVars>>

\* no counter stored yet
InitProps ==
    /\ props = [d \in Dates |-> << >>]
    /\ today = FirstDate
    /\ idRet = NoId
    /\ issued = {}
    /\ repeated = FALSE
    /\ calls = [d \in Dates |-> 0]

\* the store either before the first call of the day or after NearWrap calls made
\* one after the other; of the identifiers those calls returned, issued keeps the
\* first MaxCalls
InitIssuer ==
    \E start \in {0, NearWrap} :
        /\ props = [d \in Dates |->
                      IF d = FirstDate /\ start > 0 THEN String(start) ELSE << >>]
        /\ today = FirstDate
        /\ idRet = IF start = 0 THEN NoId ELSE invoiceId(FirstDate, start)
        /\ issued = { invoiceId(FirstDate, j) : j \in 1..(IF start < MaxCalls THEN start ELSE MaxCalls) }
        /\ repeated = FALSE
        /\ calls = [d \in Dates |-> IF d = FirstDate THEN start ELSE 0]

----------------------------------------------------------------------------
(* createInvoiceId called by two executions of the script at once *)

Callers == { 1, 2 }

\* let counter = Number(props.getProperty(counterKey) || "0")
ReadCounter(p) ==
    /\ pc[p] = "idle"
    /\ runs[p] < MaxRuns
    /\ pc' = [pc EXCEPT ![p] = "read"]
    /\ counter' = [counter EXCEPT ![p] = getCounter(props, today)]
    /\ readOf' = [readOf EXCEPT ![p] = getCounter(props, today)]
    /\ UNCHANGED <<props, today, idRet, issued, repeated, calls, idOut, runs,
                   ledgerVars, invoiceVars, callVars>>

\* counter += 1; props.setProperty(..); return the formatted identifier
WriteCounter(p) ==
    /\ pc[p] = "read"
    /\ pc' = [pc EXCEPT ![p] = "idle"]
    /\ counter' = [counter EXCEPT ![p] = @ + 1]
    /\ props' = setCounter(props, today, counter[p] + 1)
    /\ idOut' = [idOut EXCEPT ![p] = invoiceId(today, counter[p] + 1)]
    /\ runs' = [runs EXCEPT ![p] = @ + 1]
    /\ UNCHANGED <<today, idRet, issued, repeated, calls, readOf, ledgerVars,
                   invoiceVars, callVars>>

InitRace ==
    /\ pc = [p \in Callers |-> "idle"]
    /\ counter = [p \in Callers |-> 0]
    /\ idOut = [p \in Callers |-> NoId]
    /\ readOf = [p \in Callers |-> 0]
    /\ runs = [p \in Callers |-> 0]

----------------------------------------------------------------------------
(* submitOrder called by two executions of the script at once, on sheet EVENT *)

\* what each caller orders: the first caller pens, the second books
CallerItem(p) ==
    IF p = 1 THEN [item |-> "pen",  quantity |-> 2, price |-> 1000]
    ELSE [item |-> "book", quantity |-> 1, price |-> 5000]

CallerOrders(p) ==
    { Order("EVENT", n, TRUE, [j \in 1..k |-> CallerItem(p)]) :
        n \in { <<"a">>, <<"b">> }, k \in 1..MaxItems }

NoOp == [phase |-> "idle", data |-> Order("", Blank, FALSE, << >>),
         mode |-> "none", endRow |-> 0, lastRow |-> 0, i |-> 0]

\* rows the call of caller p has still to write
pending(p) ==
    IF ops[p].phase \in {"last", "write"} THEN Len(ops[p].data.items) - ops[p].i ELSE 0

\* submitOrder up to the branch: the checks pass, getNames is read and the
\* name looked up; endRow is the block's last row as read now
StartSubmit(p, data) ==
    /\ ops[p].phase \in {"idle", "done"}
    /\ DataRows(ss["EVENT"]) + Len(data.items)
          + pending(CHOOSE q \in Callers : q # p) <= MaxRows
    /\ LET names == getNames(ss["EVENT"])
           k     == find(names, data.name)
       IN  ops' = [ops EXCEPT ![p] =
                      [phase |-> IF k = 0 THEN "last" ELSE "write",
                       data |-> data,
                       mode |-> IF k = 0 THEN "append" ELSE "insert",
                       endRow |-> IF k = 0 THEN 0 ELSE names[k].endRow,
                       lastRow |-> 0, i |-> 0]]
    /\ UNCHANGED <<ss, req, ret, path, submitted,
                   issuerVars, raceVars, invoiceVars, callVars>>

\* const lastRow = sheet.getLastRow() of _appendRowsForNewName
ReadLastRow(p) ==
    /\ ops[p].phase = "last"
    /\ ops' = [ops EXCEPT ![p].phase = "write",
                          ![p].lastRow = getLastRow(ss["EVENT"])]
    /\ UNCHANGED <<ss, req, ret, path, submitted,
                   issuerVars, raceVars, invoiceVars, callVars>>

\* one pass of the loop body of _insertRowsForExistingName or of
\* _appendRowsForNewName; after the last item the call returns
WriteRow(p) ==
    /\ ops[p].phase = "write"
    /\ LET o     == ops[p]
           sheet == ss["EVENT"]
           pos   == insertPosition(o.endRow, o.i)
           item  == o.data.items[o.i + 1]
       IN  /\ ss' = [ss EXCEPT !["EVENT"] =
                        IF o.mode = "insert"
                        THEN setRow(insertRowAfter(sheet, pos), pos + 1,
                                    ItemRow(Blank, item))
                        ELSE setRow(sheet, newRow(sheet, o.lastRow, o.i),
                                    ItemRow(IF o.i = 0 THEN o.data.name ELSE Blank,
                                            item))]
           /\ ops' = [ops EXCEPT ![p].i = o.i + 1,
                                 ![p].phase = IF o.i + 1 >= Len(o.data.items)
                                              THEN "done" ELSE "write"]
    /\ UNCHANGED <<req, ret, path, submitted,
                   issuerVars, raceVars, invoiceVars, callVars>>

----------------------------------------------------------------------------
(* normalizePhoneNumber / CreateInvoice._normalizePhoneNumber *)

DigitChars == { "0", "1", "2", "3", "4", "5", "6", "7", "8", "9" }

startsWith(text, prefix) ==
    Len(text) >= Len(prefix) /\ SubSeq(text, 1, Len(prefix)) = prefix

IsPhoneChar(c) == c \in DigitChars \cup { "+" }

normalizePhoneNumber(phoneNumber) ==
    IF phoneNumber = << >> THEN << >>
    ELSE LET kept   == SelectSeq(phoneNumber, IsPhoneChar)
             noPlus == IF startsWith(kept, <<"+">>) THEN Tail(kept) ELSE kept
             noZero == IF startsWith(noPlus, <<"0">>)
                       THEN <<"6", "2">> \o Tail(noPlus) ELSE noPlus
         IN  IF ~startsWith(noZero, <<"6", "2">>)
             THEN <<"6", "2">> \o noZero ELSE noZero

\* the characters of the phone numbers tried: digits, the plus, a separator
PhoneChars == { "0", "6", "2", "8", "+", "-" }

\* the non-empty phone numbers of at most MaxPhoneLen characters
PhoneInputs == UNION { [1..n -> PhoneChars] : n \in 1..MaxPhoneLen }

NoPhoneCall == [input |-> << >>, output |-> << >>, called |-> FALSE]

\* the call is made once, on the number the caller holds
callNormalizePhoneNumber ==
    /\ ~phoneCall.called
    /\ phoneCall' = [phoneCall EXCEPT !.output = normalizePhoneNumber(phoneCall.input),
                                      !.called = TRUE]
    /\ UNCHANGED <<ledgerVars, issuerVars, raceVars, invoiceVars, payCall, sigCall, listed>>

\* a caller that holds any of the phone numbers
InitPhone ==
    phoneCall \in { [NoPhoneCall EXCEPT !.input = phoneNumber] : phoneNumber \in PhoneInputs }

----------------------------------------------------------------------------
(* DokuPayment.generateSignature *)

\* Array.prototype.join
RECURSIVE join(_, _)
join(parts, sep) ==
    IF parts = << >> THEN << >>
    ELSE IF Len(parts) = 1 THEN parts[1]
    ELSE parts[1] \o sep \o join(Tail(parts), sep)

\* Utilities.computeHmacSha256Signature, taken as injective in text and key
computeHmacSha256Signature(text, key) == [text |-> text, key |-> key]

\* a signature string without its Digest line
generateSignatureNoDigest(clientId, requestId, timestamp, digest, endpoint, secretKey) ==
    [scheme |-> "HMACSHA256=",
     mac |-> computeHmacSha256Signature(
                join(<< <<"Client-Id:">> \o clientId,
                        <<"Request-Id:">> \o requestId,
                        <<"Request-Timestamp:">> \o timestamp,
                        <<"Request-Target:">> \o endpoint >>, <<"\n">>),
                secretKey)]

\* generateSignature of an object whose fields are endpoint and secretKey:
\* `HMACSHA256=${base64Signature}` over the five lines joined by "\n"
generateSignature(clientId, requestId, timestamp, digest, endpoint, secretKey) ==
    [scheme |-> "HMACSHA256=",
     mac |-> computeHmacSha256Signature(
                join(<< <<"Client-Id:">> \o clientId,
                        <<"Request-Id:">> \o requestId,
                        <<"Request-Timestamp:">> \o timestamp,
                        <<"Request-Target:">> \o endpoint,
                        <<"Digest:">> \o digest >>, <<"\n">>),
                secretKey)]

SignatureFields ==
    {"clientId", "requestId", "timestamp", "digest", "endpoint", "secretKey"}

\* two values for each input; a text is the sequence of its characters
SignatureInputs ==
    [clientId  : { <<"c">>, <<"c", "1">> },
     requestId : { <<"r">>, <<"r", "\n">> },
     timestamp : { <<"t">>, <<"t", "Z">> },
     digest    : { <<"d">>, <<"d", "=">> },
     endpoint  : { <<"/", "v", "1">>, <<"/", "v", "2">> },
     secretKey : { <<"k">>, <<"k", "k">> }]

signatureOf(in) ==
    generateSignature(in.clientId, in.requestId, in.timestamp, in.digest,
                      in.endpoint, in.secretKey)

NoSignature == [scheme |-> "", mac |-> computeHmacSha256Signature(<< >>, << >>)]

NoSignatureCall ==
    [a |-> CHOOSE in \in SignatureInputs : TRUE, b |-> CHOOSE in \in SignatureInputs : TRUE,
     sa |-> NoSignature, sb |-> NoSignature, called |-> FALSE]

\* the two calls are made once, on the inputs the callers hold
callGenerateSignature ==
    /\ ~sigCall.called
    /\ sigCall' = [sigCall EXCEPT !.sa = signatureOf(sigCall.a),
                                  !.sb = signatureOf(sigCall.b),
                                  !.called = TRUE]
    /\ UNCHANGED <<ledgerVars, issuerVars, raceVars, invoiceVars, payCall, phoneCall, listed>>

\* two callers that hold any inputs
InitSigner ==
    sigCall \in { [NoSignatureCall EXCEPT !.a = a, !.b = b] :
                    a \in SignatureInputs, b \in SignatureInputs }

----------------------------------------------------------------------------
(* DokuPayment.generatePaymentUrl *)

\* what the gateway does with one request: the fetch throws, or it answers with
\* a status and a body that parses or not; a parsed body holds `response` or
\* not, and a `response` holds its `payment` and `order` objects or not
Gateway(t, st, p, r, rp, ro) ==
    [transport |-> t, status |-> st, parsable |-> p, hasResponse |-> r,
     hasPayment |-> rp, hasOrder |-> ro,
     url |-> IF rp THEN "https://pay" ELSE "",
     token_id |-> IF rp THEN "tok" ELSE "",
     expired_date |-> IF rp THEN "20250917" ELSE "",
     session_id |-> IF ro THEN "ses" ELSE ""]

GatewayOutcomes ==
    { Gateway(FALSE, 200, TRUE, TRUE, TRUE, TRUE),
      Gateway(FALSE, 200, TRUE, FALSE, FALSE, FALSE),
      Gateway(FALSE, 500, TRUE, FALSE, FALSE, FALSE),
      Gateway(FALSE, 500, TRUE, TRUE, TRUE, TRUE),
      Gateway(FALSE, 200, FALSE, FALSE, FALSE, FALSE),
      Gateway(TRUE, 0, FALSE, FALSE, FALSE, FALSE),
      Gateway(FALSE, 200, TRUE, TRUE, FALSE, TRUE),
      Gateway(FALSE, 200, TRUE, TRUE, TRUE, FALSE) }

GatewayUnused == Gateway(FALSE, 0, FALSE, FALSE, FALSE, FALSE)

\* a success test that takes either condition
gatewayAcceptsEither(status, hasResponse) == status = 200 \/ hasResponse

\* responseCode === 200 && responseBody.response
gatewayAccepts(status, hasResponse) == status = 200 /\ hasResponse

\* a result value: keys are the properties the returned object has
PaymentResult(ok, keys, message, code, g) ==
    [raised |-> FALSE, success |-> ok, keys |-> keys,
     paymentUrl |-> IF ok THEN g.url ELSE "",
     tokenId |-> IF ok THEN g.token_id ELSE "",
     sessionId |-> IF ok THEN g.session_id ELSE "",
     expiredDate |-> IF ok THEN g.expired_date ELSE "",
     error |-> message, responseCode |-> code]

\* a throw that no catch block turns into a result
PaymentUncaught(message) ==
    [PaymentResult(FALSE, {}, message, 0, GatewayUnused) EXCEPT !.raised = TRUE]

\* the result built by the catch block: { success: false, error: error.toString() }
PaymentCaught(message) ==
    PaymentResult(FALSE, {"success", "error"}, message, 0, GatewayUnused)

\* fetched: the request reached UrlFetchApp.fetch
generatePaymentUrl(orderData, g) ==
    IF orderData.invoiceNumber.formatted = << >> \/ orderData.amount = 0
    THEN [fetched |-> FALSE,
          result |-> PaymentCaught("Error: Invoice number and amount are required")]
    ELSE IF orderData.customerName = "" \/ orderData.customerPhone = << >>
    THEN [fetched |-> FALSE,
          result |-> PaymentCaught("Error: Customer name and phone are required")]
    ELSE IF g.transport
    THEN [fetched |-> TRUE, result |-> PaymentCaught("Exception: fetch failed")]
    ELSE IF ~g.parsable
    THEN [fetched |-> TRUE, result |-> PaymentCaught("SyntaxError")]
    ELSE IF gatewayAccepts(g.status, g.hasResponse)
    THEN \* responseBody.response.payment.url, .payment.token_id,
         \* .order.session_id, .payment.expired_date: a missing object throws
         IF g.hasResponse /\ g.hasPayment /\ g.hasOrder
         THEN [fetched |-> TRUE,
               result |-> PaymentResult(TRUE,
                             {"success", "paymentUrl", "tokenId", "sessionId",
                              "expiredDate", "response"}, "", 0, g)]
         ELSE [fetched |-> TRUE, result |-> PaymentCaught("TypeError")]
    ELSE [fetched |-> TRUE,
          result |-> PaymentResult(FALSE,
                        {"success", "error", "responseCode", "response"},
                        "Unknown error", g.status, g)]

PaymentOrder(id, amount, nm, phone) ==
    [invoiceNumber |-> id, amount |-> amount, customerName |-> nm,
     customerPhone |-> phone]

\* order data with each required field present or missing
PaymentOrders ==
    { PaymentOrder(id, amount, nm, phone) :
        id \in { NoId, [date |-> FirstDate, formatted |-> <<0, 0, 0, 1>>],
                       [date |-> FirstDate, formatted |-> <<0, 0, 0, 2>>] },
        amount \in { 0, 3000, 8000 },
        nm \in { "", "Alice", "Bob" },
        phone \in { << >>, <<"6", "2", "8", "1", "1">>, <<"6", "2", "8", "1", "2">> } }

NoPaymentCall ==
    [orderData |-> PaymentOrder(NoId, 0, "", << >>), gateway |-> GatewayUnused,
     fetched |-> FALSE, result |-> PaymentCaught(""), called |-> FALSE]

\* one call of generatePaymentUrl; the gateway is consulted only by a call that
\* passes both checks
callGeneratePaymentUrl ==
    /\ \E orderData \in PaymentOrders : \E g \in GatewayOutcomes :
          \E r \in { generatePaymentUrl(orderData, g) } :
              /\ payCall' = [orderData |-> orderData,
                             gateway |-> IF r.fetched THEN g ELSE GatewayUnused,
                             fetched |-> r.fetched, result |-> r.result,
                             called |-> TRUE]
    /\ UNCHANGED <<ledgerVars, issuerVars, raceVars, invoiceVars, phoneCall, sigCall, listed>>

----------------------------------------------------------------------------
(* sendWebhookNotification / CreateInvoice._sendWebhookNotification *)

Webhook(t, st) == [transport |-> t, status |-> st]

WebhookOutcomes ==
    { Webhook(FALSE, 199), Webhook(FALSE, 200), Webhook(FALSE, 300), Webhook(TRUE, 0) }

WebhookUnused == Webhook(FALSE, 0)

\* a status test without the lower limit
webhookAcceptsBelow(status) == status < 300

\* !(responseCode < 200 || responseCode >= 300)
webhookAccepts(status) == ~(status < 200 \/ status >= 300)

\* TRUE when the call returns true, FALSE when it throws
sendWebhookNotification(w) == ~w.transport /\ webhookAccepts(w.status)

----------------------------------------------------------------------------
(* CreateInvoice.generateInvoiceFromSheet and generateInvoice *)

InvoiceName == "Alice"

InvoicePhone == <<"0", "8", "1", "1">>

InvoiceItemLists ==
    { << >>,
      << [item |-> "pen", quantity |-> 2, price |-> 1000] >>,
      << [item |-> "pen", quantity |-> 2, price |-> 1000],
         [item |-> "book", quantity |-> 1, price |-> 5000] >> }

\* discount and shipping are Number(data.discount) || 0 and
\* Number(data.shipping) || 0: 0 when the caller sent none
Invoice(h, it, d, s) ==
    [customerName |-> InvoiceName, phoneNumber |-> InvoicePhone,
     hasItems |-> h, items |-> it, discount |-> d, shipping |-> s]

\* generateInvoice reads neither discount nor shipping
InvoiceData(entry) ==
    IF entry = "generateInvoiceFromSheet"
    THEN { Invoice(TRUE, it, d[1], d[2]) :
              it \in InvoiceItemLists, d \in { <<0, 0>>, <<1000, 2000>> } }
         \cup { Invoice(FALSE, << >>, 0, 0) }
    ELSE { Invoice(TRUE, it, 0, 0) : it \in InvoiceItemLists }
         \cup { Invoice(FALSE, << >>, 0, 0) }

NoInvoice == Invoice(FALSE, << >>, 0, 0)

\* the PDF export is asked for only after the PNG export failed, the gateway and
\* the webhook only after an export succeeded
Outcomes ==
    { [png |-> e[1], pdf |-> e[2], gateway |-> g, webhook |-> w] :
        e \in { <<200, 0>>, <<500, 200>> }, g \in GatewayOutcomes, w \in WebhookOutcomes }
    \cup { [png |-> 500, pdf |-> 500, gateway |-> GatewayUnused, webhook |-> WebhookUnused] }

\* a run that stops before the export consults none of them
OutcomesFor(entry, data) ==
    IF ~data.hasItems \/ (entry = "generateInvoiceFromSheet" /\ Len(data.items) = 0)
    THEN { [png |-> 0, pdf |-> 0, gateway |-> GatewayUnused, webhook |-> WebhookUnused] }
    ELSE Outcomes

\* the first check of generateInvoiceFromSheet; generateInvoice has none
checksItems(entry) == entry = "generateInvoiceFromSheet"

\* subtotal += item.quantity * item.price, over the items
RECURSIVE subtotalOf(_)
subtotalOf(items) ==
    IF items = << >> THEN 0
    ELSE subtotalOf(SubSeq(items, 1, Len(items) - 1))
            + items[Len(items)].quantity * items[Len(items)].price

\* a finalTotal that adds the discount
totalOfAdded(entry, data) ==
    IF entry = "generateInvoiceFromSheet"
    THEN subtotalOf(data.items) + data.discount + data.shipping
    ELSE subtotalOf(data.items)

\* finalTotal = subtotal - discount + shipping; generateInvoice has the sum alone
totalOf(entry, data) ==
    IF entry = "generateInvoiceFromSheet"
    THEN subtotalOf(data.items) - data.discount + data.shipping
    ELSE subtotalOf(data.items)

\* the rows appendRow puts on sheet ORDER, one per item
orderRowsFor(id, data) ==
    [i \in 1..Len(data.items) |->
        [invoiceId |-> id, name |-> data.customerName, phone |-> data.phoneNumber,
         item |-> data.items[i].item, quantity |-> data.items[i].quantity,
         price |-> data.items[i].price,
         subtotal |-> data.items[i].quantity * data.items[i].price]]

NoFile == [id |-> NoId, ext |-> ""]

\* the decimal digits of a natural number as characters
DigitText(n) ==
    [i \in 1..Len(String(n)) |->
        <<"0", "1", "2", "3", "4", "5", "6", "7", "8", "9">>[String(n)[i] + 1]]

\* .replace(/\B(?=(\d{3})+(?!\d))/g, "."): a point ahead of every group of
\* three digits that ends the text, except at its start
RECURSIVE group(_)
group(text) ==
    IF Len(text) <= 3 THEN text
    ELSE group(SubSeq(text, 1, Len(text) - 3)) \o <<".">>
            \o SubSeq(text, Len(text) - 2, Len(text))

\* formatCurrency: "Rp " + the number with thousand separators
formatCurrency(number) ==
    <<"R", "p", " ">>
        \o (IF number < 0 THEN <<"-">> \o group(DigitText(0 - number))
            ELSE group(DigitText(number)))

NoPayload ==
    [file_url |-> NoFile, phone_number |-> << >>, total_amount |-> << >>,
     invoice_id |-> NoId, payment_url |-> ""]

NoPayment == PaymentCaught("")

\* an order of the statements that asks the gateway before the export
stepOrderPaymentFirst ==
    <<"id", "save", "temp", "payment", "export", "webhook", "cleanup">>

\* the statements of an invoice operation after its item check, in program order:
\* createInvoiceId, the appendRow loop, the copy of the template, the PNG/PDF
\* export, generatePaymentUrl, the webhook, deleteSheet
stepOrder ==
    <<"id", "save", "temp", "export", "payment", "webhook", "cleanup">>

\* the place of x in seq, 0 when it is not there
indexOf(seq, x) ==
    IF \E i \in 1..Len(seq) : seq[i] = x
    THEN CHOOSE i \in 1..Len(seq) : seq[i] = x /\ \A j \in 1..(i - 1) : seq[j] # x
    ELSE 0

\* the statements a run has executed when it leaves at step last
upTo(last) == SubSeq(stepOrder, 1, indexOf(stepOrder, last))

\* step is executed by a run that leaves at step last
reaches(step, last) == indexOf(stepOrder, step) <= indexOf(stepOrder, last)

\* a caller that lets a throw of the webhook step leave the operation too
escapesWithWebhook(step) == step \in { "validate", "save", "export", "webhook" }

\* the steps whose throw reaches the outer catch and leaves the operation as
\* "Gagal membuat invoice: ..."; the payment and webhook steps have their own catch
escapes(step) == step \in { "validate", "save", "export" }

\* one whole run of an invoice operation: entry names the function, out what the
\* export, the gateway and the webhook answer, store and date the counter it uses
invoiceRun(entry, data, out, store, date) ==
    LET noItems == ~data.hasItems \/ Len(data.items) = 0
        id      == invoiceId(date, getCounter(store, date) + 1)
        base    == [entry |-> entry, data |-> data, raised |-> FALSE, message |-> "",
                    file |-> NoFile, id |-> NoId, newRows |-> << >>, tempLeft |-> 0,
                    steps |-> << >>, png |-> 0, pdf |-> 0, subtotal |-> 0, amount |-> 0,
                    gateway |-> GatewayUnused, fetched |-> FALSE, payment |-> NoPayment,
                    webhook |-> WebhookUnused, posted |-> FALSE, payload |-> NoPayload,
                    notified |-> FALSE]
    IN
    IF checksItems(entry) /\ noItems
    THEN [base EXCEPT !.raised = escapes("validate"),
                      !.message = "Gagal membuat invoice: No items selected for invoice",
                      !.steps = <<"validate">>]
    ELSE IF ~data.hasItems
    THEN \* data.items.forEach on a missing list throws, after the id was issued
         [base EXCEPT !.raised = escapes("save"),
                      !.message = "Gagal membuat invoice: TypeError",
                      !.id = id, !.steps = upTo("save")]
    ELSE
    LET exported == out.png = 200 \/ out.pdf = 200
        total    == totalOf(entry, data)
        saved    == [base EXCEPT !.id = id, !.newRows = orderRowsFor(id, data),
                                 !.subtotal = subtotalOf(data.items),
                                 !.png = out.png,
                                 !.pdf = IF out.png = 200 THEN 0 ELSE out.pdf]
        pay      == generatePaymentUrl(
                       [invoiceNumber |-> id, amount |-> total,
                        customerName |-> data.customerName,
                        customerPhone |-> normalizePhoneNumber(data.phoneNumber)],
                       out.gateway)
    IN
    IF ~exported
    THEN \* the throw of the export leaves the temporary sheet behind
         LET asked == reaches("payment", "export") /\ pay.fetched IN
         [saved EXCEPT !.raised = escapes("export"),
                       !.message = "Gagal membuat invoice: export failed",
                       !.tempLeft = 1,
                       !.gateway = IF asked THEN out.gateway ELSE GatewayUnused,
                       !.fetched = asked,
                       !.amount = IF reaches("payment", "export") THEN total ELSE 0,
                       !.steps = upTo("export")]
    ELSE
    LET file    == [id |-> id, ext |-> IF out.png = 200 THEN "png" ELSE "pdf"]
        payUrl  == IF pay.result.success THEN pay.result.paymentUrl ELSE ""
        sent    == sendWebhookNotification(out.webhook)
        done    == [saved EXCEPT
                      !.file = file,
                      !.gateway = IF pay.fetched THEN out.gateway ELSE GatewayUnused,
                      !.fetched = pay.fetched,
                      !.amount = total,
                      !.payment = pay.result,
                      !.webhook = out.webhook,
                      !.posted = TRUE,
                      !.payload = [file_url |-> file,
                                   phone_number |-> normalizePhoneNumber(data.phoneNumber),
                                   total_amount |-> formatCurrency(total),
                                   invoice_id |-> id,
                                   payment_url |-> payUrl],
                      !.notified = sent]
    IN
    IF ~sent /\ escapes("webhook")
    THEN [done EXCEPT !.raised = TRUE,
                      !.message = "Gagal membuat invoice: Webhook failed",
                      !.file = NoFile,
                      !.tempLeft = 1,
                      !.steps = upTo("webhook")]
    ELSE [done EXCEPT !.steps = upTo("cleanup")]

\* the effects of a run on the store, sheet ORDER and the temporary sheets
invoiceStep(entry) ==
    /\ calls[today] < MaxInvoices
    /\ \E data \in InvoiceData(entry) : \E out \in OutcomesFor(entry, data) :
          \E r \in { invoiceRun(entry, data, out, props, today) } :
              /\ inv' = r
              /\ orderRows' = orderRows \o r.newRows
              /\ tempSheets' = tempSheets + r.tempLeft
              /\ IF r.id = NoId
                 THEN UNCHANGED <<props, idRet, issued, repeated, calls>>
                 ELSE /\ props' = setCounter(props, today, getCounter(props, today) + 1)
                      /\ idRet' = r.id
                      /\ issued' = issued \cup { r.id }
                      /\ repeated' = (r.id \in issued)
                      /\ calls' = [calls EXCEPT ![today] = @ + 1]
    /\ UNCHANGED <<today, ledgerVars, raceVars, callVars>>

generateInvoiceFromSheet == invoiceStep("generateInvoiceFromSheet")

generateInvoice == invoiceStep("generateInvoice")

InitInvoice ==
    /\ orderRows = << >>
    /\ tempSheets = 0
    /\ inv = [entry |-> "none", data |-> NoInvoice, raised |-> FALSE, message |-> "",
              file |-> NoFile, id |-> NoId, newRows |-> << >>, tempLeft |-> 0,
              steps |-> << >>, png |-> 0, pdf |-> 0, subtotal |-> 0, amount |-> 0,
              gateway |-> GatewayUnused, fetched |-> FALSE, payment |-> NoPayment,
              webhook |-> WebhookUnused, posted |-> FALSE, payload |-> NoPayload,
              notified |-> FALSE]

----------------------------------------------------------------------------
(* InputOrder.getSheets / CreateInvoice.getAvailableSheets *)

\* the sheets a spreadsheet may hold, in the order of their tabs
TabOrder == <<"EVENT", "ORDER", "INVOICE", "TEMPLATE", "CONFIG", "LOG", "BAZAAR">>

\* the same names as Array.prototype.sort orders them
SortOrder == <<"BAZAAR", "CONFIG", "EVENT", "INVOICE", "LOG", "ORDER", "TEMPLATE">>

SheetPool == { TabOrder[i] : i \in 1..Len(TabOrder) }

\* ss.getSheets(): the names of the sheets of the spreadsheet, in tab order
sheetNames(book) ==
    LET Held(n) == n \in DOMAIN book IN SelectSeq(TabOrder, Held)

\* the names of seq put in the order of .sort()
sort(seq) ==
    LET InSeq(n) == \E i \in 1..Len(seq) : seq[i] = n IN SelectSeq(SortOrder, InSeq)

\* InputOrder.getSheets: excludedSheets = ["TEMPLATE", "CONFIG"]
getSheets(book) ==
    LET Kept(n) == n \notin {"TEMPLATE", "CONFIG"} IN SelectSeq(sheetNames(book), Kept)

\* getAvailableSheets: excludedSheets = ["TEMPLATE", "CONFIG", "ORDER", "LOG", "INVOICE"]
getAvailableSheets(book) ==
    LET Kept(n) == n \notin {"TEMPLATE", "CONFIG", "ORDER", "LOG", "INVOICE"}
    IN  sort(SelectSeq(sheetNames(book), Kept))

callGetSheets ==
    /\ listed' = [fn |-> "getSheets", names |-> getSheets(ss)]
    /\ UNCHANGED <<ledgerVars, issuerVars, raceVars, invoiceVars, payCall, phoneCall, sigCall>>

callGetAvailableSheets ==
    /\ listed' = [fn |-> "getAvailableSheets", names |-> getAvailableSheets(ss)]
    /\ UNCHANGED <<ledgerVars, issuerVars, raceVars, invoiceVars, payCall, phoneCall, sigCall>>

\* a spreadsheet that holds any of the sheets, each with its header row alone
InitListing ==
    /\ ss \in { [s \in held |-> <<HeaderRow>>] : held \in SUBSET SheetPool }
    /\ req = Order("", Blank, FALSE, << >>)
    /\ ret = NoResult
    /\ path = "none"
    /\ submitted = [n \in AllNames |-> 0]
    /\ ops = [p \in Callers |-> NoOp]

----------------------------------------------------------------------------
(* The protected sheets TEMPLATE and CONFIG *)

TemplateSheet ==
    <<HeaderRow, [name |-> <<"N", "a", "m", "a">>, item |-> "Item", quantity |-> 1, price |-> 0]>>

ConfigSheet == <<HeaderRow>>

\* a spreadsheet with an event sheet and the two protected sheets
InitProtected ==
    /\ ss = [s \in {"EVENT", "TEMPLATE", "CONFIG"} |->
                IF s = "TEMPLATE" THEN TemplateSheet
                ELSE IF s = "CONFIG" THEN ConfigSheet ELSE <<HeaderRow>>]
    /\ req = Order("", Blank, FALSE, << >>)
    /\ ret = NoResult
    /\ path = "none"
    /\ submitted = [n \in AllNames |-> 0]
    /\ ops = [p \in Callers |-> NoOp]

\* orders of one item for each sheet of that spreadsheet: sheetName is whatever
\* the caller sends
ProtectedOrders ==
    { Order(s, <<"a">>, TRUE, << [item |-> "pen", quantity |-> 2, price |-> 1000] >>) :
        s \in {"EVENT", "TEMPLATE", "CONFIG"} }

----------------------------------------------------------------------------
(* Specifications *)

InitLedger ==
    /\ ss = [s \in {"EVENT"} |-> <<HeaderRow>>]
    /\ req = Order("", Blank, FALSE, << >>)
    /\ ret = NoResult
    /\ path = "none"
    /\ submitted = [n \in AllNames |-> 0]
    /\ ops = [p \in Callers |-> NoOp]

\* no call made yet
InitCalls ==
    /\ payCall = NoPaymentCall
    /\ phoneCall = NoPhoneCall
    /\ sigCall = NoSignatureCall
    /\ listed = [fn |-> "none", names |-> << >>]

Init == InitLedger /\ InitProps /\ InitRace /\ InitInvoice /\ InitCalls

\* the ledger: submitOrder calls run one at a time
NextLedger == \E data \in OrderData : submitOrder(data)

SpecLedger == Init /\ [][NextLedger]_vars

\* the issuer: createInvoiceId calls run one at a time, over two days
NextIssuer == createInvoiceId \/ NextDay

InitStore == InitLedger /\ InitIssuer /\ InitRace /\ InitInvoice /\ InitCalls

SpecIssuer == InitStore /\ [][NextIssuer]_vars

\* the issuer called by two executions whose steps interleave
NextRace == \E p \in Callers : ReadCounter(p) \/ WriteCounter(p)

SpecRace == Init /\ [][NextRace]_vars

\* invoice operations, one at a time
NextInvoice == generateInvoiceFromSheet \/ generateInvoice

SpecInvoice == Init /\ [][NextInvoice]_vars

\* generatePaymentUrl called on its own
NextPayment == callGeneratePaymentUrl

SpecPayment == Init /\ [][NextPayment]_vars

\* normalizePhoneNumber called on its own
NextPhone == callNormalizePhoneNumber

InitNumber ==
    InitLedger /\ InitProps /\ InitRace /\ InitInvoice
        /\ payCall = NoPaymentCall /\ sigCall = NoSignatureCall
        /\ listed = [fn |-> "none", names |-> << >>]
        /\ InitPhone

SpecPhone == InitNumber /\ [][NextPhone]_vars

\* generateSignature called on its own
NextSigner == callGenerateSignature

InitSigned ==
    InitLedger /\ InitProps /\ InitRace /\ InitInvoice
        /\ payCall = NoPaymentCall /\ phoneCall = NoPhoneCall
        /\ listed = [fn |-> "none", names |-> << >>]
        /\ InitSigner

SpecSigner == InitSigned /\ [][NextSigner]_vars

\* the two sheet lists, asked of any spreadsheet
NextListing == callGetSheets \/ callGetAvailableSheets

InitSheets == InitListing /\ InitProps /\ InitRace /\ InitInvoice /\ InitCalls

SpecListing == InitSheets /\ [][NextListing]_vars

\* submitOrder called with any sheet name of a spreadsheet that holds the
\* protected sheets
NextProtected == \E data \in ProtectedOrders : submitOrder(data)

InitGuarded == InitProtected /\ InitProps /\ InitRace /\ InitInvoice /\ InitCalls

\* submitOrder called by two executions whose steps interleave
NextInterleave ==
    \E p \in Callers :
        \/ \E data \in CallerOrders(p) : StartSubmit(p, data)
        \/ ReadLastRow(p)
        \/ WriteRow(p)

SpecInterleave == Init /\ [][NextInterleave]_vars

SpecProtected == InitGuarded /\ [][NextProtected]_vars

----------------------------------------------------------------------------
(* Properties of the ledger *)

Ledger == ss["EVENT"]

RowCount(b) == b.endRow - b.startRow + 1

\* req is an order that passes both checks of submitOrder
ValidOrder(book, data) ==
    /\ data.sheetName \in DOMAIN book
    /\ data.hasItems
    /\ Len(data.items) > 0

\* the indices of the blocks headed by nm
BlocksOf(names, nm) == { i \in 1..Len(names) : names[i].name = nm }

FirstBlockOf(names, nm) ==
    CHOOSE i \in BlocksOf(names, nm) : \A j \in BlocksOf(names, nm) : i <= j

\* C1: from a header-only sheet, after any sequence of successful submitOrder
\* calls run one at a time for distinct non-empty customer names, the blocks of
\* getNames cover rows 2..lastRow with no gap and no overlap, and each block has
\* as many rows as items were submitted so far for its customer name.
C1_BlocksPartitionAndCount ==
    LET names   == getNames(Ledger)
        lastRow == getLastRow(Ledger)
    IN  /\ lastRow > 1 =>
              /\ Len(names) >= 1
              /\ names[1].startRow = 2
              /\ names[Len(names)].endRow = lastRow
        /\ \A i \in 1..(Len(names) - 1) : names[i + 1].startRow = names[i].endRow + 1
        /\ \A i \in 1..Len(names) : names[i].startRow <= names[i].endRow
        /\ \A i \in 1..Len(names) : RowCount(names[i]) = submitted[names[i].name]

\* C2: submitOrder for a name that already has a block inserts its k items, in
\* the given order, as k rows with a blank name cell right after the last row of
\* that block; the block's endRow grows by k, and every other block keeps its
\* name, its rows and its place in the order (blocks below move down by k).
C2_InsertAfterBlock ==
    [][ LET data  == req'
            sheet == ss[data.sheetName]
            post  == ss'[data.sheetName]
            names == getNames(sheet)
            after == getNames(post)
            k     == Len(data.items)
        IN  (ValidOrder(ss, data) /\ BlocksOf(names, data.name) # {}) =>
              LET b == FirstBlockOf(names, data.name)
                  e == names[b].endRow
              IN  /\ Len(post) = Len(sheet) + k
                  /\ \A r \in 1..e : post[r] = sheet[r]
                  /\ \A j \in 1..k : post[e + j] = ItemRow(Blank, data.items[j])
                  /\ \A r \in (e + 1)..Len(sheet) : post[r + k] = sheet[r]
                  /\ Len(after) = Len(names)
                  /\ \A j \in 1..Len(names) :
                        /\ after[j].name = names[j].name
                        /\ after[j].startRow =
                              names[j].startRow + (IF j > b THEN k ELSE 0)
                        /\ after[j].endRow =
                              names[j].endRow + (IF j >= b THEN k ELSE 0)
      ]_vars

\* C2 witness: two or more items were inserted into a block that has another
\* customer's block below it.
C2_Witness ==
    /\ path = "insert"
    /\ Len(req.items) >= 2
    /\ LET names == getNames(Ledger)
       IN  \E i \in 1..Len(names) :
              /\ names[i].name = req.name
              /\ i < Len(names)
              /\ names[i + 1].name # req.name

\* C6: when the same customer name heads two disjoint blocks, submitOrder for
\* that name puts its rows at the end of the block with the smaller startRow and
\* leaves the row count of the later blocks of that name unchanged.
C6_FirstBlockWins ==
    [][ LET data  == req'
            sheet == ss[data.sheetName]
            post  == ss'[data.sheetName]
            names == getNames(sheet)
            after == getNames(post)
            k     == Len(data.items)
        IN  (ValidOrder(ss, data) /\ Cardinality(BlocksOf(names, data.name)) >= 2) =>
              LET b == FirstBlockOf(names, data.name)
              IN  /\ \A j \in BlocksOf(names, data.name) : names[b].startRow <= names[j].startRow
                  /\ Len(after) = Len(names)
                  /\ RowCount(after[b]) = RowCount(names[b]) + k
                  /\ \A j \in 1..k :
                        post[names[b].endRow + j] = ItemRow(Blank, data.items[j])
                  /\ \A j \in BlocksOf(names, data.name) \ {b} :
                        /\ after[j].name = data.name
                        /\ RowCount(after[j]) = RowCount(names[j])
      ]_vars

\* C6 witness: an insert was made for a name that heads two blocks.
C6_Witness ==
    /\ path = "insert"
    /\ Cardinality(BlocksOf(getNames(Ledger), req.name)) >= 2

\* C7: submitOrder gives back a failure result instead of raising when the sheet
\* name does not resolve or the item list is missing or empty, and then no row
\* of any sheet is inserted or written.
C7_FailureResultNoWrite ==
    [][ ~ValidOrder(ss, req') =>
            /\ ~ret'.raised
            /\ ~ret'.success
            /\ ret'.message # ""
            /\ ss' = ss
      ]_vars

\* C7 witness: an order for a sheet that does not exist was refused while the
\* ledger already held rows.
C7_Witness ==
    /\ path = "nosheet"
    /\ ~ret.success
    /\ getLastRow(Ledger) > 1

\* an order with a missing or empty item list was refused
C7_WitnessNoItems ==
    /\ path = "noitems"
    /\ ~ret.success
    /\ getLastRow(Ledger) > 1

\* the items of rows from..to of sheet, in row order
ItemsOfRows(sheet, from, to) ==
    [j \in 1..(to - from + 1) |->
        [item |-> sheet[from + j - 1].item, quantity |-> sheet[from + j - 1].quantity,
         price |-> sheet[from + j - 1].price]]

BlockNames(names) == { names[i].name : i \in 1..Len(names) }

\* C20: getCustomerItems(sheet, name) returns exactly the item rows of the first
\* block headed by that name, in row order, and stops at the next customer
\* name: the items of a second, later block headed by the same name are not
\* returned, so the items read for an invoice come from the block that lookup
\* by name selects.
C20_ItemsOfFirstBlock ==
    LET names == getNames(Ledger)
    IN  \A nm \in BlockNames(names) :
            getCustomerItems(Ledger, nm) =
                ItemsOfRows(Ledger, names[find(names, nm)].startRow,
                            names[find(names, nm)].endRow)

\* the rows of all the blocks headed by nm, from block i on
RECURSIVE ItemsOfBlocks(_, _, _, _)
ItemsOfBlocks(sheet, names, nm, i) ==
    IF i > Len(names) THEN << >>
    ELSE (IF names[i].name = nm
          THEN ItemsOfRows(sheet, names[i].startRow, names[i].endRow) ELSE << >>)
         \o ItemsOfBlocks(sheet, names, nm, i + 1)

\* what holds of C20: getCustomerItems returns the item rows of every block
\* headed by that name, in row order
C20_ItemsOfEveryBlock ==
    LET names == getNames(Ledger)
    IN  \A nm \in BlockNames(names) :
            getCustomerItems(Ledger, nm) = ItemsOfBlocks(Ledger, names, nm, 1)

\* no two blocks of sheet are headed by the same name
DistinctBlockNames(sheet) ==
    LET names == getNames(sheet)
    IN  \A i \in 1..Len(names) : \A j \in 1..Len(names) :
            names[i].name = names[j].name => i = j

\* C22: if no two blocks of a sheet share a customer name, then after any
\* sequence of submitOrder calls run one at a time no two blocks of getNames
\* share a customer name, also when a submitted name has leading or trailing
\* whitespace or differs from an existing name by such whitespace only.
C22_NoDuplicateBlockNames ==
    [][ DistinctBlockNames(Ledger) => DistinctBlockNames(ss'["EVENT"]) ]_vars

\* what holds of C22: a call whose name carries no whitespace at either end
\* adds no second block of a name
C22_TrimmedNamesOnly ==
    [][ (DistinctBlockNames(Ledger) /\ req'.name = Trim(req'.name))
            => DistinctBlockNames(ss'["EVENT"]) ]_vars

----------------------------------------------------------------------------
(* Properties of the invoice-id issuer *)

\* C3: for a fixed date and a counter that starts absent, N calls made one after
\* the other return the counter values 1..N in that order with no gap and no
\* repeat, each rendered as the counter zero-padded to PadWidth digits, and the
\* stored counter is N afterwards.
C3_SequentialNumbering ==
    /\ \A d \in Dates : calls[d] > 0 => getCounter(props, d) = calls[d]
    /\ ~repeated
    /\ idRet # NoId =>
          idRet = [date |-> idRet.date, formatted |-> formatWide(calls[idRet.date])]

\* what holds of C3: while the counter has at most PadWidth digits, the stored
\* counter is the number of calls and the identifier is the zero-padded counter
C3_UpToWidth ==
    /\ \A d \in Dates : calls[d] > 0 => getCounter(props, d) = calls[d]
    /\ (idRet # NoId /\ calls[idRet.date] < Pow10(PadWidth)) =>
          /\ idRet = [date |-> idRet.date, formatted |-> formatWide(calls[idRet.date])]
          /\ Len(idRet.formatted) = PadWidth
          /\ ~repeated

\* C4: for a fixed date all identifiers returned by calls made one after the
\* other are pairwise distinct, and the identifier for a counter value of
\* 10^PadWidth or above is wider than PadWidth digits and differs from every
\* identifier issued earlier that day.
C4_DistinctBeyondWidth ==
    /\ ~repeated
    /\ (idRet # NoId /\ calls[idRet.date] >= Pow10(PadWidth)) =>
          Len(idRet.formatted) > PadWidth

\* C5: the issuer reads, increments and writes without atomicity: when two calls
\* on the same date both read the stored counter before either writes, both
\* return the same identifier and the stored counter has advanced by one only.
C5_LostUpdate ==
    \A p \in Callers : \A q \in Callers \ {p} :
        (pc[p] = "idle" /\ pc[q] = "idle" /\ runs[p] > 0 /\ runs[q] > 0
            /\ readOf[p] = readOf[q]) =>
                /\ idOut[p] = idOut[q]
                /\ getCounter(props, today) = readOf[p] + 1

\* C5 witness: both callers have returned, with the same identifier, and the
\* counter stands one above what both had read.
C5_Witness ==
    /\ pc[1] = "idle" /\ pc[2] = "idle"
    /\ runs[1] > 0 /\ runs[2] > 0
    /\ readOf[1] = readOf[2]
    /\ idOut[1] = idOut[2]
    /\ idOut[1] # NoId
    /\ getCounter(props, today) = readOf[1] + 1

\* the larger of two numbers
Max(a, b) == IF a >= b THEN a ELSE b

\* both callers have returned from a call that appended a new name, and both
\* calls had read the same last row
BothAppendedFrom(p, q) ==
    /\ ops[p].phase = "done" /\ ops[q].phase = "done"
    /\ ops[p].mode = "append" /\ ops[q].mode = "append"
    /\ ops[p].lastRow = ops[q].lastRow

\* rows of sheet that hold the ware of caller p
RowsOf(sheet, p) == { r \in 2..Len(sheet) : sheet[r].item = CallerItem(p).item }

\* C21: submitOrder reads the blocks and writes its rows without atomicity: when
\* two calls that append a new name both read the last row before either
\* writes, they write the same rows, so the sheet ends only as many rows longer
\* as the longer order has items and holds fewer item rows than were submitted.
C21_InterleavedLoseRows ==
    \A p \in Callers : \A q \in Callers \ {p} :
        BothAppendedFrom(p, q) =>
            /\ getLastRow(Ledger) =
                  ops[p].lastRow + Max(Len(ops[p].data.items), Len(ops[q].data.items))
            /\ \E w \in {p, q} :
                  Cardinality({ r \in RowsOf(Ledger, w) : r > ops[p].lastRow })
                      < Len(ops[w].data.items)

\* C21 witness: two calls for different customers on a sheet without data rows
\* have both returned; the second caller's row overwrote the first caller's
\* name row, and an item row of the first caller lies inside the block of the
\* second caller's customer.
C21_Witness ==
    /\ BothAppendedFrom(1, 2)
    /\ ops[1].lastRow = 1
    /\ ops[1].data.name # ops[2].data.name
    /\ \E k \in 1..Len(getNames(Ledger)) :
          LET b == getNames(Ledger)[k]
          IN  /\ b.name = ops[2].data.name
              /\ \E r \in RowsOf(Ledger, 1) : b.startRow < r /\ r <= b.endRow
    /\ \A k \in 1..Len(getNames(Ledger)) :
          getNames(Ledger)[k].name # ops[1].data.name

----------------------------------------------------------------------------
(* Properties of invoice creation *)

GatewayFailed(g) == g.transport \/ ~g.parsable \/ g.status # 200 \/ ~g.hasResponse

WebhookFailed(w) == w.transport \/ w.status < 200 \/ w.status >= 300

NoItemList(data) == ~data.hasItems \/ Len(data.items) = 0

\* C8: when the gateway answers with a status other than 200, or with a body
\* without `response`, or the fetch fails, the invoice operation (either entry
\* point) still returns the URL of the exported file, posts the webhook with an
\* empty payment_url, and raises nothing.
C8_GatewayFailureTolerated ==
    (inv.fetched /\ GatewayFailed(inv.gateway)) =>
        /\ ~inv.raised
        /\ inv.file = [id |-> inv.id, ext |-> IF inv.png = 200 THEN "png" ELSE "pdf"]
        /\ inv.id # NoId
        /\ inv.posted
        /\ inv.payload.file_url = inv.file
        /\ inv.payload.payment_url = ""

\* C8 witness: generateInvoice ran into a gateway that answered 500 with a
\* parsable body, and returned the file.
C8_Witness ==
    /\ inv.entry = "generateInvoice"
    /\ inv.fetched
    /\ inv.gateway.status = 500
    /\ inv.gateway.hasResponse
    /\ ~inv.raised
    /\ inv.file # NoFile

\* C9: when the webhook answers with a status outside [200,300) or the POST
\* raises, the invoice operation neither fails nor rolls back: it returns the
\* file URL, the ORDER rows written for the invoice remain and the issued
\* counter value is kept; the notification reports success only for a status in
\* [200,300).
C9_WebhookFailureTolerated ==
    [][ /\ (inv'.posted /\ WebhookFailed(inv'.webhook)) =>
              /\ ~inv'.raised
              /\ inv'.file = [id |-> inv'.id,
                              ext |-> IF inv'.png = 200 THEN "png" ELSE "pdf"]
              /\ ~inv'.notified
              /\ inv'.id = invoiceId(today, getCounter(props, today) + 1)
              /\ getCounter(props', today) = getCounter(props, today) + 1
              /\ Len(orderRows') = Len(orderRows) + Len(inv'.data.items)
              /\ SubSeq(orderRows', 1, Len(orderRows)) = orderRows
              /\ \A j \in 1..Len(inv'.data.items) :
                    /\ orderRows'[Len(orderRows) + j].invoiceId = inv'.id
                    /\ orderRows'[Len(orderRows) + j].item = inv'.data.items[j].item
        /\ inv'.notified =>
              (~inv'.webhook.transport /\ inv'.webhook.status >= 200
                  /\ inv'.webhook.status < 300)
      ]_vars

\* C9 witness: the webhook answered 300 to an invoice with two items; the file
\* was returned and the two rows are on sheet ORDER.
C9_Witness ==
    /\ inv.posted
    /\ inv.webhook.status = 300
    /\ ~inv.raised
    /\ inv.file # NoFile
    /\ Len(inv.data.items) = 2
    /\ Len(orderRows) >= 2
    /\ orderRows[Len(orderRows)].invoiceId = inv.id

\* C10: invoice creation with an empty or missing item list aborts with an
\* error before any effect, through both entry points: no invoice id is issued
\* and the daily counter is unchanged, no ORDER row is appended, no temporary
\* sheet is created, and neither the gateway nor the webhook is called.
C10_NoItemsNoEffect ==
    [][ NoItemList(inv'.data) =>
            /\ inv'.raised
            /\ inv'.id = NoId
            /\ props' = props
            /\ orderRows' = orderRows
            /\ tempSheets' = tempSheets
            /\ inv'.steps = <<"validate">>
            /\ ~inv'.fetched
            /\ ~inv'.posted
      ]_vars

\* what holds of C10: generateInvoiceFromSheet alone refuses an empty or missing
\* item list before any effect
C10_FromSheetOnly ==
    [][ (NoItemList(inv'.data) /\ inv'.entry = "generateInvoiceFromSheet") =>
            /\ inv'.raised
            /\ inv'.id = NoId
            /\ props' = props
            /\ orderRows' = orderRows
            /\ tempSheets' = tempSheets
            /\ ~inv'.fetched
            /\ ~inv'.posted
      ]_vars

\* the place of step x in the last run, 0 when the run did not execute it
Pos(x) == indexOf(inv.steps, x)

ExportTried == inv.png # 0

ExportDone == inv.png = 200 \/ inv.pdf = 200

\* C11 as stated: in every run the invoice id is minted, then the payment URL is
\* requested from the gateway, then the document is exported, then the webhook
\* is posted; the payment request precedes the document export.
C11_PaymentBeforeExport ==
    ExportTried =>
        /\ 0 < Pos("id")
        /\ Pos("id") < Pos("payment")
        /\ Pos("payment") < Pos("export")
        /\ inv.posted => Pos("export") < Pos("webhook")

\* C11 amended: in every run the invoice id is minted, then the document is
\* exported, then the payment URL is requested from the gateway, then the webhook
\* is posted; the gateway is asked only after an export succeeded, and the
\* webhook carries the file of that export and the URL the gateway gave.
C11_ExportBeforePayment ==
    /\ inv.id # NoId => Pos("id") = 1
    /\ ExportTried => (0 < Pos("id") /\ Pos("id") < Pos("export"))
    /\ Pos("payment") > 0 => (0 < Pos("export") /\ Pos("export") < Pos("payment"))
    /\ Pos("webhook") > 0 => (0 < Pos("payment") /\ Pos("payment") < Pos("webhook"))
    /\ inv.fetched => (Pos("payment") > 0 /\ ExportDone)
    /\ (ExportTried /\ ~ExportDone) => (~inv.fetched /\ ~inv.posted /\ Pos("payment") = 0)
    /\ inv.posted =>
          /\ Pos("webhook") > 0
          /\ inv.payload.invoice_id = inv.id
          /\ inv.payload.file_url = [id |-> inv.id,
                                     ext |-> IF inv.png = 200 THEN "png" ELSE "pdf"]
          /\ inv.payload.payment_url =
                IF inv.payment.success THEN inv.payment.paymentUrl ELSE ""

\* C11 witness: a run of generateInvoiceFromSheet went through every step, the
\* PDF export after a failed PNG export, a gateway that gave a URL, the webhook.
C11_Witness ==
    /\ inv.entry = "generateInvoiceFromSheet"
    /\ inv.steps = <<"id", "save", "temp", "export", "payment", "webhook", "cleanup">>
    /\ inv.png = 500 /\ inv.pdf = 200
    /\ inv.fetched /\ inv.payment.success
    /\ inv.posted /\ inv.payload.payment_url # ""

\* a run whose two exports failed: the gateway was not asked
C11_WitnessExportFailed ==
    /\ ExportTried /\ ~ExportDone
    /\ inv.raised
    /\ ~inv.fetched

----------------------------------------------------------------------------
(* Properties of generatePaymentUrl *)

MissingField(orderData) ==
    \/ orderData.invoiceNumber = NoId
    \/ orderData.amount = 0
    \/ orderData.customerName = ""
    \/ orderData.customerPhone = << >>

\* C12: generatePaymentUrl never raises past its boundary: for every input, a
\* missing required field included, and every outcome of the gateway or the
\* transport (fetch exception, unparsable body, status other than 200, 200
\* without `response`) it returns a result value, and success is false in each
\* of these cases.
C12_NeverRaises ==
    payCall.called =>
        /\ ~payCall.result.raised
        /\ "success" \in payCall.result.keys
        /\ MissingField(payCall.orderData) =>
              (~payCall.fetched /\ ~payCall.result.success /\ payCall.result.error # "")
        /\ (payCall.fetched /\ GatewayFailed(payCall.gateway)) =>
              (~payCall.result.success /\ payCall.result.error # "")

\* C12 witness: a call with every field present met a gateway whose body did
\* not parse, and gave back a failure.
C12_Witness ==
    /\ payCall.called
    /\ payCall.fetched
    /\ ~payCall.gateway.transport /\ ~payCall.gateway.parsable
    /\ ~payCall.result.success

\* a call without a customer phone gave back a failure before any request
C12_WitnessMissingField ==
    /\ payCall.called
    /\ payCall.orderData.customerPhone = << >>
    /\ payCall.orderData.invoiceNumber # NoId /\ payCall.orderData.amount # 0
    /\ ~payCall.fetched
    /\ ~payCall.result.success

\* C13: generatePaymentUrl returns success = true if and only if the gateway's
\* HTTP status is 200 and the parsed body holds a `response` object; on success
\* paymentUrl, tokenId, sessionId and expiredDate are response.payment.url,
\* response.payment.token_id, response.order.session_id and
\* response.payment.expired_date.
C13_SuccessIff200AndResponse ==
    (payCall.called /\ payCall.fetched) =>
        /\ payCall.result.success <=>
              (~payCall.gateway.transport /\ payCall.gateway.parsable
                  /\ payCall.gateway.status = 200 /\ payCall.gateway.hasResponse)
        /\ payCall.result.success =>
              /\ payCall.result.paymentUrl = payCall.gateway.url
              /\ payCall.result.tokenId = payCall.gateway.token_id
              /\ payCall.result.sessionId = payCall.gateway.session_id
              /\ payCall.result.expiredDate = payCall.gateway.expired_date

\* what holds of C13: success only for a 200 whose `response` holds both its
\* `payment` and its `order` object, with the four values taken from them
C13_SuccessNeedsObjects ==
    (payCall.called /\ payCall.fetched) =>
        /\ payCall.result.success <=>
              (~payCall.gateway.transport /\ payCall.gateway.parsable
                  /\ payCall.gateway.status = 200 /\ payCall.gateway.hasResponse
                  /\ payCall.gateway.hasPayment /\ payCall.gateway.hasOrder)
        /\ payCall.result.success =>
              /\ payCall.result.paymentUrl = payCall.gateway.url
              /\ payCall.result.tokenId = payCall.gateway.token_id
              /\ payCall.result.sessionId = payCall.gateway.session_id
              /\ payCall.result.expiredDate = payCall.gateway.expired_date

\* the properties of the failure object built for a non-200 answer
AnswerFailureKeys == {"success", "error", "responseCode", "response"}

\* C14: every failure result of generatePaymentUrl has the same shape, with an
\* error message and the HTTP status: a failure made from a caught exception
\* (transport error, unparsable body, failed validation) has the same fields as
\* a failure made from a non-200 answer of the gateway.
C14_SameFailureShape ==
    (payCall.called /\ ~payCall.result.success) =>
        /\ payCall.result.keys = AnswerFailureKeys
        /\ "error" \in payCall.result.keys
        /\ "responseCode" \in payCall.result.keys

\* what holds of C14: every failure has `success` and `error`; the HTTP status
\* is there exactly when the failure was made from a parsed answer
C14_FailureHasError ==
    (payCall.called /\ ~payCall.result.success) =>
        /\ {"success", "error"} \subseteq payCall.result.keys
        /\ payCall.result.error # ""
        /\ "responseCode" \in payCall.result.keys <=>
              (payCall.fetched /\ ~payCall.gateway.transport /\ payCall.gateway.parsable
                  /\ ~(payCall.gateway.status = 200 /\ payCall.gateway.hasResponse))

----------------------------------------------------------------------------
(* Properties of the sheets *)

ProtectedSheets == {"TEMPLATE", "CONFIG"}

SystemSheets == {"ORDER", "LOG", "INVOICE", "TEMPLATE", "CONFIG"}

\* C15: no operation of the script ever writes to sheet TEMPLATE or CONFIG:
\* whatever the arguments of a call, a sheetName argument "TEMPLATE" or "CONFIG"
\* included, the contents of these two sheets stay as they were.
C15_ProtectedSheetsUnchanged ==
    [][ \A s \in ProtectedSheets \cap DOMAIN ss : ss'[s] = ss[s] ]_vars

\* what holds of C15: a call that names another sheet leaves the two alone
C15_OtherSheetNames ==
    [][ req'.sheetName \notin ProtectedSheets =>
            \A s \in ProtectedSheets \cap DOMAIN ss : ss'[s] = ss[s] ]_vars

Listed == { listed.names[i] : i \in 1..Len(listed.names) }

\* C16: every list of sheets offered for selection, by InputOrder.getSheets and
\* by CreateInvoice.getAvailableSheets, leaves out the system sheets ORDER, LOG,
\* INVOICE, TEMPLATE and CONFIG, whatever sheets the spreadsheet holds.
C16_ListsExcludeSystemSheets ==
    listed.fn # "none" => Listed \cap SystemSheets = {}

\* what holds of C16: getAvailableSheets leaves out the five system sheets,
\* getSheets leaves out TEMPLATE and CONFIG, and both offer every other sheet
C16_ListsAsCoded ==
    /\ listed.fn = "getAvailableSheets" => Listed = DOMAIN ss \ SystemSheets
    /\ listed.fn = "getSheets" => Listed = DOMAIN ss \ ProtectedSheets

----------------------------------------------------------------------------
(* Properties of the invoice amounts *)

\* the sum over the items of quantity x unitPrice
RECURSIVE SumOfItems(_)
SumOfItems(items) ==
    IF items = << >> THEN 0
    ELSE Head(items).quantity * Head(items).price + SumOfItems(Tail(items))

\* C17: for every invoice, subtotal is the sum over its items of quantity x
\* unitPrice and total = subtotal - discount + shipping (discount and shipping
\* are 0 when not given); this total is the amount sent in the payment request
\* and the amount formatted into total_amount of the webhook (items 2 x 1000 and
\* 1 x 5000, discount 1000, shipping 2000: subtotal 7000, total 8000).
C17_TotalSentAndNotified ==
    Pos("payment") > 0 =>
        LET subtotal == SumOfItems(inv.data.items)
            total    == subtotal - inv.data.discount + inv.data.shipping
        IN  /\ inv.subtotal = subtotal
            /\ inv.amount = total
            /\ inv.posted => inv.payload.total_amount = formatCurrency(total)

\* C17 witness: the invoice of 2 x 1000 and 1 x 5000 with discount 1000 and
\* shipping 2000 had subtotal 7000; 8000 went to the gateway and "Rp 8.000" to
\* the webhook.
C17_Witness ==
    /\ inv.entry = "generateInvoiceFromSheet"
    /\ Len(inv.data.items) = 2
    /\ inv.data.discount = 1000 /\ inv.data.shipping = 2000
    /\ inv.subtotal = 7000
    /\ inv.amount = 8000
    /\ inv.fetched
    /\ inv.posted
    /\ inv.payload.total_amount = <<"R", "p", " ", "8", ".", "0", "0", "0">>

----------------------------------------------------------------------------
(* Properties of phone normalization *)

IsDigit(c) == c \in DigitChars

\* the rule: the digits of the number, a leading 0 replaced by 62, 62 put in
\* front unless the digits start with it
RuleNormalize(phoneNumber) ==
    LET digits == SelectSeq(phoneNumber, IsDigit) IN
    IF startsWith(digits, <<"0">>) THEN <<"6", "2">> \o Tail(digits)
    ELSE IF startsWith(digits, <<"6", "2">>) THEN digits
    ELSE <<"6", "2">> \o digits

\* C18: for every non-empty phone string over digits, '+' and separators,
\* normalization gives what the rule gives (everything but digits and a leading
\* '+' stripped, the '+' dropped, a leading 0 replaced by 62, 62 put in front
\* unless already there): the result has digits only, starts with 62, and a
\* number already of the form 62... comes back unchanged.
C18_NormalizedAsRule ==
    phoneCall.called =>
        /\ phoneCall.output = RuleNormalize(phoneCall.input)
        /\ \A i \in 1..Len(phoneCall.output) : IsDigit(phoneCall.output[i])
        /\ startsWith(phoneCall.output, <<"6", "2">>)
        /\ (startsWith(phoneCall.input, <<"6", "2">>)
                /\ \A i \in 1..Len(phoneCall.input) : IsDigit(phoneCall.input[i]))
              => phoneCall.output = phoneCall.input

\* the number has no '+' after its first digit or '+'
PlusLeadingOnly(phoneNumber) ==
    LET kept == SelectSeq(phoneNumber, IsPhoneChar)
    IN  \A i \in 2..Len(kept) : kept[i] # "+"

\* what holds of C18: a number whose only '+' is ahead of its digits is
\* normalized as the rule says; every result starts with 62
C18_LeadingPlusOnly ==
    phoneCall.called =>
        /\ startsWith(phoneCall.output, <<"6", "2">>)
        /\ PlusLeadingOnly(phoneCall.input) =>
              /\ phoneCall.output = RuleNormalize(phoneCall.input)
              /\ \A i \in 1..Len(phoneCall.output) : IsDigit(phoneCall.output[i])

----------------------------------------------------------------------------
(* Properties of the payment signature *)

\* the inputs in which two calls differ
Differing(a, b) == { f \in SignatureFields : a[f] # b[f] }

\* C19: the signature is a function of (clientId, requestId, timestamp, digest,
\* endpointPath, secretKey): the same inputs give the same signature, and a
\* change of any single input changes it; two inputs that differ in one field
\* other than the key never give the same newline-joined signature string.
C19_SignatureFollowsInputs ==
    sigCall.called =>
        /\ sigCall.a = sigCall.b => sigCall.sa = sigCall.sb
        /\ Cardinality(Differing(sigCall.a, sigCall.b)) = 1 =>
              /\ sigCall.sa # sigCall.sb
              /\ Differing(sigCall.a, sigCall.b) # {"secretKey"} =>
                    sigCall.sa.mac.text # sigCall.sb.mac.text
              /\ Differing(sigCall.a, sigCall.b) = {"secretKey"} =>
                    sigCall.sa.mac.text = sigCall.sb.mac.text

\* C19 witness: two calls that differ in the digest alone gave two signatures.
C19_Witness ==
    /\ sigCall.called
    /\ Differing(sigCall.a, sigCall.b) = {"digest"}
    /\ sigCall.sa # sigCall.sb

----------------------------------------------------------------------------
(* Properties of the temporary sheet *)

\* C23: whenever generateInvoiceFromSheet or generateInvoice finishes, by
\* returning or by raising, the TEMP_INVOICE_<timestamp> sheet it created has
\* been deleted: no temporary sheet outlives the operation that created it,
\* also when both the PNG and the PDF export fail.
C23_TempSheetDeleted ==
    /\ tempSheets = 0
    /\ inv.tempLeft = 0

\* what holds of C23: an operation that returns has deleted its temporary
\* sheet, and one that raises before the copy of the template has made none
C23_DeletedOnReturn ==
    /\ (inv.entry # "none" /\ ~inv.raised) =>
          (inv.tempLeft = 0 /\ Pos("cleanup") > Pos("temp") /\ Pos("temp") > 0)
    /\ Pos("temp") = 0 => inv.tempLeft = 0
    /\ inv.tempLeft = 1 => (inv.raised /\ ExportTried /\ ~ExportDone)

====
